---------------------------- MODULE Spec2Model ----------------------------
(***************************************************************************)
(* hotpdf/processor.py: the Ghostscript ingestion pipeline                 *)
(*   process -> __generate_xml_file -> __call_ghostscript                  *)
(*           -> __validate_gs_output -> __handle_gs_result -> __clean_xml  *)
(*           -> __parse_xml                                                *)
(* Text is a sequence of characters, each a one-character string.          *)
(***************************************************************************)
EXTENDS Integers, Sequences, FiniteSets, TLC

(***************************************************************************)
(* Bounds of the model.                                                    *)
(***************************************************************************)
\* longest raw document, in pieces of RawPieces, that Ghostscript writes
MaxPieces == 3
\* longest page-structured document, in pieces of PagePieces
MaxTokens == 5
\* largest page number of a request
MaxPage == 1

(***************************************************************************)
(* Characters.                                                             *)
(***************************************************************************)
Letters ==
  {"a","b","c","d","e","f","g","h","i","j","k","l","m",
   "n","o","p","q","r","s","t","u","v","w","x","y","z",
   "A","B","C","D","E","F","G","H","I","J","K","L","M",
   "N","O","P","Q","R","S","T","U","V","W","X","Y","Z"}

Digits == {"0","1","2","3","4","5","6","7","8","9"}

HexDigits == Digits \cup {"a","b","c","d","e","f","A","B","C","D","E","F"}

\* the value of one (hexa)decimal digit, as int(s, 16) reads it
DigitVal(c) ==
  CASE c = "0" -> 0 [] c = "1" -> 1 [] c = "2" -> 2 [] c = "3" -> 3
    [] c = "4" -> 4 [] c = "5" -> 5 [] c = "6" -> 6 [] c = "7" -> 7
    [] c = "8" -> 8 [] c = "9" -> 9
    [] c \in {"a","A"} -> 10 [] c \in {"b","B"} -> 11
    [] c \in {"c","C"} -> 12 [] c \in {"d","D"} -> 13
    [] c \in {"e","E"} -> 14 [] c \in {"f","F"} -> 15

\* A character that is none of the characters the pipeline or the reader
\* treats specially (any code point outside ASCII, such as U+0457).
OtherChar == "U+"

\* chr(num) for the code points the model's texts can name
Chr(num) ==
  CASE num = 34 -> "\""
    [] num = 38 -> "&"
    [] num = 39 -> "'"
    [] num = 47 -> "/"
    [] num = 59 -> ";"
    [] num = 60 -> "<"
    [] num = 62 -> ">"
    [] num = 65 -> "A"
    [] num = 74 -> "J"
    [] num = 98 -> "b"
    [] OTHER -> OtherChar

\* The characters of the class that line 92 removes (control characters,
\* surrogates, U+FFFE, U+FFFF)
\* that the model's alphabet holds: the form feed \x0c.
InvalidXmlChars == {"\f"}

(***************************************************************************)
(* Helpers on texts.                                                       *)
(***************************************************************************)
StartsWith(s, i, pat) ==
  /\ i + Len(pat) - 1 <= Len(s)
  /\ \A k \in 1..Len(pat) : s[i + k - 1] = pat[k]

\* the length of the longest run of characters of `set` that starts at s[i]
RECURSIVE RunLen(_, _, _)
RunLen(s, i, set) ==
  IF i <= Len(s) /\ s[i] \in set THEN 1 + RunLen(s, i + 1, set) ELSE 0

RECURSIVE Concat(_)
Concat(ss) == IF ss = <<>> THEN <<>> ELSE Head(ss) \o Concat(Tail(ss))

Min(a, b) == IF a <= b THEN a ELSE b

\* int(digits, base)
RECURSIVE NumVal(_, _, _)
NumVal(ds, base, acc) ==
  IF ds = <<>> THEN acc ELSE NumVal(Tail(ds), base, acc * base + DigitVal(Head(ds)))

(***************************************************************************)
(* __clean_xml, line 88: re.sub(r"(&#x[0-9]+;)", "", raw_xml)              *)
(***************************************************************************)
\* the length of the match of &#x[0-9]+; at s[i], 0 when there is none
HexRefLen(s, i) ==
  IF StartsWith(s, i, <<"&", "#", "x">>)
  THEN LET d == RunLen(s, i + 3, Digits)
       IN  IF d >= 1 /\ i + 3 + d <= Len(s) /\ s[i + 3 + d] = ";"
           THEN d + 4 ELSE 0
  ELSE 0

RECURSIVE StripHexFrom(_, _)
StripHexFrom(s, i) ==
  IF i > Len(s) THEN <<>>
  ELSE LET n == HexRefLen(s, i)
       IN  IF n > 0 THEN StripHexFrom(s, i + n)
           ELSE <<s[i]>> \o StripHexFrom(s, i + 1)

StripHexRefs(s) == StripHexFrom(s, 1)

(***************************************************************************)
(* __clean_xml, line 89: re.sub(r"(&quot;)", "'", raw_xml)                 *)
(***************************************************************************)
QuotEntity == <<"&", "q", "u", "o", "t", ";">>

RECURSIVE ReplaceQuotFrom(_, _)
ReplaceQuotFrom(s, i) ==
  IF i > Len(s) THEN <<>>
  ELSE IF StartsWith(s, i, QuotEntity)
       THEN <<"'">> \o ReplaceQuotFrom(s, i + Len(QuotEntity))
       ELSE <<s[i]>> \o ReplaceQuotFrom(s, i + 1)

ReplaceQuot(s) == ReplaceQuotFrom(s, 1)

(***************************************************************************)
(* __clean_xml, line 90: html.unescape(raw_xml), that is                   *)
(* re.sub(r"&(#[0-9]+;?|#[xX][0-9a-fA-F]+;?|[^\t\n\f <&#;]{1,32};?)",      *)
(*        _replace_charref, s)                                             *)
(***************************************************************************)
\* html.entities.html5 restricted to the names the model's alphabet spells
Html5 ==
  [n \in {<<"a","m","p",";">>, <<"a","m","p">>, <<"l","t",";">>, <<"l","t">>,
          <<"g","t",";">>, <<"g","t">>, <<"q","u","o","t",";">>,
          <<"q","u","o","t">>, <<"a","p","o","s",";">>} |->
     CASE n \in {<<"a","m","p",";">>, <<"a","m","p">>} -> "&"
       [] n \in {<<"l","t",";">>, <<"l","t">>} -> "<"
       [] n \in {<<"g","t",";">>, <<"g","t">>} -> ">"
       [] n \in {<<"q","u","o","t",";">>, <<"q","u","o","t">>} -> "\""
       [] OTHER -> "'"]

\* the characters a named reference stops at: [\t\n\f <&#;]
NameStop == {"\t", "\n", "\f", " ", "<", "&", "#", ";"}

NameChars(s) == {s[k] : k \in 1..Len(s)} \ NameStop

\* html._invalid_codepoints (a character reference to one of them decodes to
\* nothing) and the references html._invalid_charrefs / the surrogate test
\* turn into U+FFFD or another character outside ASCII
InvalidCodepoint(num) ==
  \/ num \in 1..8 \/ num = 11 \/ num \in 14..31 \/ num \in 127..159
  \/ num \in 64976..65007 \/ num \in {65534, 65535}

\* _replace_charref for a numeric reference with the digits ds in base
NumericRef(ds, base) ==
  LET num == NumVal(ds, base, 0)
  IN  IF num = 0 \/ num \in 55296..57343 \/ num > 1114111 THEN <<OtherChar>>
      ELSE IF num = 13 THEN <<"\r">>
      ELSE IF InvalidCodepoint(num) THEN <<>>
      ELSE <<Chr(num)>>

\* _replace_charref for a name s (with its ';' when it has one): the name
\* itself, else its longest prefix of two characters or more that html5 holds
RECURSIVE PrefixRef(_, _)
PrefixRef(s, x) ==
  IF x < 2 THEN <<"&">> \o s
  ELSE IF SubSeq(s, 1, x) \in DOMAIN Html5
       THEN <<Html5[SubSeq(s, 1, x)]>> \o SubSeq(s, x + 1, Len(s))
       ELSE PrefixRef(s, x - 1)

NamedRef(s) ==
  IF s \in DOMAIN Html5 THEN <<Html5[s]>> ELSE PrefixRef(s, Len(s) - 1)

\* the optional ';' after a match that ends before s[j]
Semi(s, j) == IF j <= Len(s) /\ s[j] = ";" THEN 1 ELSE 0

\* the length of the reference the regular expression matches at s[i] = "&"
\* (0: none) and its replacement
CharRef(s, i) ==
  IF i + 1 <= Len(s) /\ s[i + 1] = "#"
  THEN LET dec == RunLen(s, i + 2, Digits)
           hex == IF i + 2 <= Len(s) /\ s[i + 2] \in {"x", "X"}
                  THEN RunLen(s, i + 3, HexDigits) ELSE 0
       IN  IF dec >= 1
           THEN [len |-> 2 + dec + Semi(s, i + 2 + dec),
                 out |-> NumericRef(SubSeq(s, i + 2, i + 1 + dec), 10)]
           ELSE IF hex >= 1
           THEN [len |-> 3 + hex + Semi(s, i + 3 + hex),
                 out |-> NumericRef(SubSeq(s, i + 3, i + 2 + hex), 16)]
           ELSE [len |-> 0, out |-> <<>>]
  ELSE LET n == Min(32, RunLen(s, i + 1, NameChars(s)))
           m == n + Semi(s, i + 1 + n)
       IN  IF n >= 1
           THEN [len |-> 1 + m, out |-> NamedRef(SubSeq(s, i + 1, i + m))]
           ELSE [len |-> 0, out |-> <<>>]

RECURSIVE UnescapeFrom(_, _)
UnescapeFrom(s, i) ==
  IF i > Len(s) THEN <<>>
  ELSE IF s[i] = "&" /\ CharRef(s, i).len > 0
       THEN LET r == CharRef(s, i) IN r.out \o UnescapeFrom(s, i + r.len)
       ELSE <<s[i]>> \o UnescapeFrom(s, i + 1)

Unescape(s) == UnescapeFrom(s, 1)

(***************************************************************************)
(* __clean_xml, lines 91-93: remove the invalid XML characters             *)
(***************************************************************************)
StripInvalid(s) == SelectSeq(s, LAMBDA c : c \notin InvalidXmlChars)

(***************************************************************************)
(* __clean_xml, line 94: raw_xml.replace("&", "&amp;")                     *)
(***************************************************************************)
AmpEntity == <<"&", "a", "m", "p", ";">>

\* a variant that leaves "&" as it is
EscapeAmp_None(s) == s

EscapeAmp(s) ==
  Concat([k \in 1..Len(s) |-> IF s[k] = "&" THEN AmpEntity ELSE <<s[k]>>])

(***************************************************************************)
(* __clean_xml, line 95: re.sub(r"<(?!/?[a-zA-Z])", "&lt;", raw_xml)       *)
(***************************************************************************)
LtEntity == <<"&", "l", "t", ";">>

\* the lookahead /?[a-zA-Z] matches after s[i]
OpensTag(s, i) ==
  \/ i + 1 <= Len(s) /\ s[i + 1] \in Letters
  \/ i + 2 <= Len(s) /\ s[i + 1] = "/" /\ s[i + 2] \in Letters

EscapeLt(s) ==
  Concat([k \in 1..Len(s) |->
            IF s[k] = "<" /\ ~OpensTag(s, k) THEN LtEntity ELSE <<s[k]>>])

(***************************************************************************)
(* __clean_xml, line 96: the declaration and the <pages> root              *)
(***************************************************************************)
XmlDecl ==
  <<"<","?","x","m","l"," ","v","e","r","s","i","o","n","=","\"","1",".","0",
    "\""," ","e","n","c","o","d","i","n","g","=","\"","U","T","F","-","8","\"",
    "?",">">>

PagesOpen == <<"<","p","a","g","e","s",">">>

PagesClose == <<"<","/","p","a","g","e","s",">">>

Wrap(s) == XmlDecl \o PagesOpen \o s \o PagesClose

\* a variant that escapes "<" before "&"
CleanFragment_LtFirst(raw) ==
  EscapeAmp(EscapeLt(StripInvalid(Unescape(ReplaceQuot(StripHexRefs(raw))))))

\* lines 88-95: the text between the root's tags
CleanFragment(raw) ==
  EscapeLt(EscapeAmp(StripInvalid(Unescape(ReplaceQuot(StripHexRefs(raw))))))

\* lines 87-96: what __clean_xml writes back for the text it read
CleanText(raw) == Wrap(CleanFragment(raw))

(***************************************************************************)
(* The texts Ghostscript may write: concatenations of pieces.              *)
(***************************************************************************)
RawPieces ==
  { <<"&">>, <<"<">>, <<">">>, <<"/">>, <<"b">>, <<"\f">>,
    <<"&","a","m","p",";">>, <<"a","m","p",";">>,
    <<"&","l","t",";">>, <<"&","g","t",";">>,
    <<"&","q","u","o","t",";">>,
    <<"&","#","x","4","1",";">>, <<"&","#","x","4","A",";">>,
    <<"<","p","a","g","e",">">>, <<"<","/","p","a","g","e",">">> }

RECURSIVE TextsUpTo(_, _)
TextsUpTo(pieces, n) ==
  IF n = 0 THEN {<<>>}
  ELSE LET prev == TextsUpTo(pieces, n - 1)
       IN  prev \cup {d \o p : d \in prev, p \in pieces}

RawDocs == TextsUpTo(RawPieces, MaxPieces)

(***************************************************************************)
(* ET.iterparse(xml_file_path, events=("start", "end")), line 135: the     *)
(* reader's view of a text.  The text is cut into tag tokens, each with    *)
(* the character data before it; the first token that is not well-formed   *)
(* ends the sequence as an "error" token, the end of the text as "eof".    *)
(***************************************************************************)
XmlNameChars == Letters \cup Digits \cup {".", "-", "_"}

XmlSpace == {" ", "\t", "\n", "\r"}

Token(pre, kind, name) == [pre |-> pre, kind |-> kind, name |-> name]

\* the predefined entities of XML and the character each stands for
XmlEntity ==
  [n \in {<<"a","m","p",";">>, <<"l","t",";">>, <<"g","t",";">>,
          <<"q","u","o","t",";">>, <<"a","p","o","s",";">>} |->
     CASE n = <<"a","m","p",";">> -> "&"
       [] n = <<"l","t",";">> -> "<"
       [] n = <<"g","t",";">> -> ">"
       [] n = <<"q","u","o","t",";">> -> "\""
       [] OTHER -> "'"]

\* the code points XML 1.0 allows as a character
XmlChar(num) ==
  \/ num \in {9, 10, 13} \/ num \in 32..55295 \/ num \in 57344..65533
  \/ num \in 65536..1114111

\* the reference at s[i] = "&": its length (0: not well-formed) and character
XmlRef(s, i) ==
  LET named == {n \in DOMAIN XmlEntity : StartsWith(s, i + 1, n)}
      hex   == IF StartsWith(s, i + 1, <<"#", "x">>)
               THEN RunLen(s, i + 3, HexDigits) ELSE 0
      dec   == IF StartsWith(s, i + 1, <<"#">>)
               THEN RunLen(s, i + 2, Digits) ELSE 0
  IN  IF named # {}
      THEN LET n == CHOOSE n \in named : TRUE
           IN  [len |-> 1 + Len(n), ch |-> XmlEntity[n]]
      ELSE IF hex >= 1 /\ Semi(s, i + 3 + hex) = 1
      THEN LET num == NumVal(SubSeq(s, i + 3, i + 2 + hex), 16, 0)
           IN  [len |-> IF XmlChar(num) THEN hex + 4 ELSE 0, ch |-> Chr(num)]
      ELSE IF dec >= 1 /\ Semi(s, i + 2 + dec) = 1
      THEN LET num == NumVal(SubSeq(s, i + 2, i + 1 + dec), 10, 0)
           IN  [len |-> IF XmlChar(num) THEN dec + 3 ELSE 0, ch |-> Chr(num)]
      ELSE [len |-> 0, ch |-> ""]

\* the tag at s[i] = "<": its length (0: not well-formed), kind and name.
\* The model's texts hold no attributes; a tag is <name>, <name/> or </name>,
\* with optional white space before the closing bracket.
XmlTag(s, i) ==
  LET close == i + 1 <= Len(s) /\ s[i + 1] = "/"
      from  == IF close THEN i + 2 ELSE i + 1
      n     == IF from <= Len(s) /\ s[from] \in Letters \cup {"_"}
               THEN RunLen(s, from, XmlNameChars) ELSE 0
      j     == from + n + RunLen(s, from + n, XmlSpace)
      name  == SubSeq(s, from, from + n - 1)
  IN  IF n = 0 THEN [len |-> 0, kind |-> "error", name |-> <<>>]
      ELSE IF j <= Len(s) /\ s[j] = ">"
      THEN [len |-> j + 1 - i, kind |-> IF close THEN "end" ELSE "start",
            name |-> name]
      ELSE IF ~close /\ StartsWith(s, j, <<"/", ">">>)
      THEN [len |-> j + 2 - i, kind |-> "empty", name |-> name]
      ELSE [len |-> 0, kind |-> "error", name |-> <<>>]

RECURSIVE TokensFrom(_, _, _)
TokensFrom(s, i, pre) ==
  IF i > Len(s) THEN <<Token(pre, "eof", <<>>)>>
  ELSE IF s[i] = "<"
  THEN LET t == XmlTag(s, i)
       IN  IF t.len = 0 THEN <<Token(pre, "error", <<>>)>>
           ELSE <<Token(pre, t.kind, t.name)>> \o TokensFrom(s, i + t.len, <<>>)
  ELSE IF s[i] = "&"
  THEN LET r == XmlRef(s, i)
       IN  IF r.len = 0 THEN <<Token(pre, "error", <<>>)>>
           ELSE TokensFrom(s, i + r.len, Append(pre, r.ch))
  ELSE IF s[i] \in InvalidXmlChars THEN <<Token(pre, "error", <<>>)>>
  ELSE TokensFrom(s, i + 1, Append(pre, s[i]))

\* the tokens of a document: the XML declaration may open it
Tokens(s) ==
  IF StartsWith(s, 1, XmlDecl) THEN TokensFrom(s, Len(XmlDecl) + 1, <<>>)
  ELSE TokensFrom(s, 1, <<>>)

(***************************************************************************)
(* The tree the reader builds (xml.etree.ElementTree.TreeBuilder).  An     *)
(* element is a node of the heap `nodes`: its tag, text, tail and          *)
(* children, and `tok`, the index of the token that opened it.             *)
(***************************************************************************)
Node(tag, tok) ==
  [tag |-> tag, text |-> <<>>, tail |-> <<>>, kids |-> <<>>, tok |-> tok]

\* Element.clear(): no children, no text, no tail; the tag stays
Cleared(n) == [n EXCEPT !.text = <<>>, !.tail = <<>>, !.kids = <<>>]

\* an event of the reader: its kind, its element, and the token it came from
Event(ev, el, at) == [ev |-> ev, el |-> el, at |-> at]

NewBuilder ==
  [stack |-> <<>>, last |-> 0, tail |-> FALSE, closed |-> FALSE, dead |-> FALSE]

HasText(pre) == \E k \in 1..Len(pre) : pre[k] \notin XmlSpace

\* a parse error: it is queued behind the events already found
Fail(st, tok) ==
  [st EXCEPT !.b.dead = TRUE, !.queue = Append(@, Event("error", 0, tok))]

\* TreeBuilder._flush: the character data goes to the last element, as its
\* text when the element is open and as its tail when it is closed
Flush(st, pre) ==
  IF pre = <<>> \/ st.b.last = 0 \/ st.b.stack = <<>> THEN st
  ELSE IF st.b.tail THEN [st EXCEPT !.nodes[st.b.last].tail = pre]
  ELSE [st EXCEPT !.nodes[st.b.last].text = pre]

\* TreeBuilder.start and the "start" event
StartTag(st, name, tok) ==
  LET id == Len(st.nodes) + 1
      withNode == [st EXCEPT !.nodes = Append(@, Node(name, tok))]
      linked == IF st.b.stack = <<>> THEN withNode
                ELSE [withNode EXCEPT
                        !.nodes[st.b.stack[Len(st.b.stack)]].kids = Append(@, id)]
  IN  [linked EXCEPT !.b.stack = Append(@, id), !.b.last = id,
                     !.b.tail = FALSE,
                     !.queue = Append(@, Event("start", id, tok))]

\* TreeBuilder.end and the "end" event
EndTag(st, tok) ==
  LET n == Len(st.b.stack)
      id == st.b.stack[n]
  IN  [st EXCEPT !.b.stack = SubSeq(@, 1, n - 1), !.b.last = id,
                 !.b.tail = TRUE, !.b.closed = (n = 1),
                 !.queue = Append(@, Event("end", id, tok))]

\* the parser is fed token number tok
FeedToken(st, t, tok) ==
  LET outside == st.b.stack = <<>>
      top == st.nodes[st.b.stack[Len(st.b.stack)]]
  IN  IF st.b.dead THEN st
      ELSE IF t.kind = "error" \/ (outside /\ HasText(t.pre)) THEN Fail(st, tok)
      ELSE IF t.kind = "eof"
      THEN IF outside /\ st.b.closed THEN st ELSE Fail(st, tok)
      ELSE IF t.kind \in {"start", "empty"}
      THEN IF st.b.closed THEN Fail(st, tok)
           ELSE LET opened == StartTag(Flush(st, t.pre), t.name, tok)
                IN  IF t.kind = "empty" THEN EndTag(opened, tok) ELSE opened
      ELSE IF outside \/ top.tag # t.name THEN Fail(st, tok)
      ELSE EndTag(Flush(st, t.pre), tok)

\* XMLPullParser.feed of one block: the tokens from .. to
RECURSIVE FeedTokens(_, _, _, _)
FeedTokens(st, toks, from, to) ==
  IF from > to THEN st
  ELSE FeedTokens(FeedToken(st, toks[from], from), toks, from + 1, to)

\* the reader fed all the tokens at once, nothing cleared
ParseAll(toks) ==
  FeedTokens([b |-> NewBuilder, nodes |-> <<>>, queue |-> <<>>], toks, 1, Len(toks))

\* the whole text is well-formed: the reader reaches its end without an error
WellFormed(s) == ~ParseAll(Tokens(s)).b.dead

PagePieces ==
  { <<"<","p","a","g","e",">">>, <<"<","/","p","a","g","e",">">>,
    <<"<","s","p","a","n","/",">">>, <<"x">> }

PageDocs == TextsUpTo(PagePieces, MaxTokens)

\* a few documents for the runs that vary the request
FewDocs ==
  { <<>>,
    <<"<","p","a","g","e",">","x","<","/","p","a","g","e",">">>,
    <<"<","p","a","g","e",">">> }

(***************************************************************************)
(* The request, process(source, password, drop_duplicate_spans,            *)
(* first_page, last_page), and the host.                                   *)
(***************************************************************************)
Sources ==
  { [kind |-> "str", val |-> "doc.pdf"], [kind |-> "str", val |-> "-"],
    [kind |-> "bytes", val |-> "%PDF"] }

Passwords == {"", "secret"}

\* a page bound: None (not given) or a number
PageArgs ==
  {[given |-> FALSE, n |-> 0]} \cup {[given |-> TRUE, n |-> k] : k \in 0..MaxPage}

NoPageArg == [given |-> FALSE, n |-> 0]

OsNames == {"posix", "nt"}

\* Python's truth value of a str and of an Optional[int]
TruthyStr(x) == x # ""

TruthyInt(x) == x.given /\ x.n # 0

(***************************************************************************)
(* What Ghostscript does with the request: the lines it prints, its exit   *)
(* code, and the file it leaves at the output path.                        *)
(***************************************************************************)
RequiresPassword == "This file requires a password for access"

PasswordDidNotWork == "Password did not work"

UnrecoverableError == "Unrecoverable error"

GsLines == {RequiresPassword, PasswordDidNotWork, UnrecoverableError, "GPL Ghostscript"}

GsStreams == {<<>>} \cup {<<l>> : l \in GsLines}

NoFile == [exists |-> FALSE, text |-> <<>>]

FileOf(text) == [exists |-> TRUE, text |-> text]

GsOutputs(docs) ==
  [stderr : GsStreams, stdout : GsStreams, returncode : {0, 1},
   written : {NoFile} \cup {FileOf(d) : d \in docs}]

\* one output for each status, and one that leaves no file
GsOutputsByStatus(docs) ==
  { o \in GsOutputs(docs) :
      /\ o.stdout = <<>>
      /\ \/ o.returncode = 0
         \/ o.stderr = <<>> /\ o.written = NoFile }

(***************************************************************************)
(* The state.                                                              *)
(***************************************************************************)
VARIABLES
  source, password, drop_duplicate_spans, first_page, last_page, \* the request
  os_name,        \* os.name of the host
  gs,             \* what Ghostscript does with the request
  pc,             \* where process() is
  command_line_args, \* the command __call_ghostscript built
  stdin,          \* the input handed to subprocess.run
  runs,           \* the external processes run
  status,         \* the Result of __validate_gs_output
  temp_xml_file,  \* the temporary XML file: whether it exists, and its text
  raw_xml,        \* the text __clean_xml read from the file
  exc,            \* the exception process() raised
  log,            \* the functions of the pipeline entered, in order
  tokens, fed,    \* the reader: the tokens of the file, and how many it was fed
  builder, nodes, \* the reader: the tree builder and the elements it made
  queue,          \* the reader: the events found and not yet delivered
  root,           \* the variable root of __parse_xml
  pages,          \* the list pages of __parse_xml
  calls           \* the calls the page consumer (MemoryMap) received

vars ==
  <<source, password, drop_duplicate_spans, first_page, last_page, os_name, gs,
    pc, command_line_args, stdin, runs, status, temp_xml_file, raw_xml, exc,
    log, tokens, fed, builder, nodes, queue, root, pages, calls>>

request == <<source, password, drop_duplicate_spans, first_page, last_page, os_name, gs>>

reader == <<tokens, fed, builder, nodes, queue, root>>

NoExc == [type |-> "", msg |-> ""]

\* the state at the call of process(), before any of its code ran
Start ==
  /\ pc = "process"
  /\ command_line_args = <<>>
  /\ stdin = [given |-> FALSE, data |-> ""]
  /\ runs = 0
  /\ status = "NONE"
  /\ temp_xml_file = NoFile
  /\ raw_xml = <<>>
  /\ exc = NoExc
  /\ log = <<>>
  /\ tokens = <<>> /\ fed = 0 /\ builder = NewBuilder /\ nodes = <<>>
  /\ queue = <<>> /\ root = 0
  /\ pages = <<>> /\ calls = <<>>

\* every request, on a few documents
Init ==
  /\ source \in Sources
  /\ password \in Passwords
  /\ drop_duplicate_spans \in BOOLEAN
  /\ first_page \in PageArgs
  /\ last_page \in PageArgs
  /\ os_name \in OsNames
  /\ gs \in { o \in GsOutputs(FewDocs) : o.written # NoFile => o.stdout = <<>> }
  /\ Start

\* one request, on every page-structured document
InitPages ==
  /\ source = [kind |-> "str", val |-> "doc.pdf"]
  /\ password = ""
  /\ drop_duplicate_spans \in BOOLEAN
  /\ first_page = NoPageArg
  /\ last_page = NoPageArg
  /\ os_name = "posix"
  /\ gs \in GsOutputsByStatus(PageDocs)
  /\ Start

\* one request, on every raw document
InitRaw ==
  /\ source = [kind |-> "bytes", val |-> "%PDF"]
  /\ password = "secret"
  /\ drop_duplicate_spans \in BOOLEAN
  /\ first_page = NoPageArg
  /\ last_page = NoPageArg
  /\ os_name = "posix"
  /\ gs \in GsOutputsByStatus(RawDocs)
  /\ Start

(***************************************************************************)
(* __validate_gs_output, lines 103-112                                     *)
(***************************************************************************)
\* "marker in err" for err = stderr + stdout
Contains(err, marker) == \E k \in 1..Len(err) : err[k] = marker

\* a variant that tests the generic failure before the password markers
ValidateGsOutput_ErrorFirst(output) ==
  LET err == output.stderr \o output.stdout
  IN  IF Contains(err, UnrecoverableError) \/ output.returncode # 0
      THEN "UNKNOWN_ERROR"
      ELSE IF Contains(err, RequiresPassword) THEN "LOCKED"
      ELSE IF Contains(err, PasswordDidNotWork) THEN "WRONG_PASSWORD"
      ELSE "LOADED"

ValidateGsOutput(output) ==
  LET err == output.stderr \o output.stdout
  IN  IF Contains(err, RequiresPassword) THEN "LOCKED"
      ELSE IF Contains(err, PasswordDidNotWork) THEN "WRONG_PASSWORD"
      ELSE IF Contains(err, UnrecoverableError) \/ output.returncode # 0
      THEN "UNKNOWN_ERROR"
      ELSE "LOADED"

(***************************************************************************)
(* __call_ghostscript, lines 51-75 (with line 45, the temporary path)      *)
(***************************************************************************)
\* Path(tempfile.gettempdir(), nanoid.generate_nano_id() + ".xml"), line 45
TempPath == "/tmp/nanoid.xml"

Arg(opt, str, num) == [opt |-> opt, str |-> str, num |-> num]

Ghostscript(os) == IF os # "nt" THEN "gs" ELSE "gswin64c"

FixedArgs(os) ==
  << Arg(Ghostscript(os), "", 0), Arg("-dNOPAUSE", "", 0), Arg("-dBATCH", "", 0),
     Arg("-dSAFER", "", 0), Arg("-dTextFormat=1", "", 0),
     Arg("-sDEVICE=txtwrite", "", 0) >>

PasswordArgs(pw) ==
  IF TruthyStr(pw) THEN <<Arg("-sPDFPassword=", pw, 0)>> ELSE <<>>

\* a variant that tests "is not None" instead of the truth value
FirstPageArgs_NotNone(fp) ==
  IF fp.given THEN <<Arg("-dFirstPage=", "", fp.n)>> ELSE <<>>

FirstPageArgs(fp) ==
  IF TruthyInt(fp) THEN <<Arg("-dFirstPage=", "", fp.n)>> ELSE <<>>

LastPageArgs(lp) ==
  IF TruthyInt(lp) THEN <<Arg("-dLastPage=", "", lp.n)>> ELSE <<>>

\* line 67: pipe = type(source) is bytes
Pipe(src) == src.kind = "bytes"

SourceArgs(src) ==
  <<Arg("", IF Pipe(src) THEN "-" ELSE src.val, 0)>>

CommandLineArgs(src, path, pw, fp, lp, os) ==
  FixedArgs(os) \o PasswordArgs(pw) \o FirstPageArgs(fp) \o LastPageArgs(lp)
    \o <<Arg("-sOutputFile=", path, 0)>> \o SourceArgs(src)

\* input=source if pipe else None, line 72
Input(src) ==
  IF Pipe(src) THEN [given |-> TRUE, data |-> src.val]
  ELSE [given |-> FALSE, data |-> ""]

\* line 26 -> 46: the command is built and run once; whatever the exit code,
\* the output is classified and nothing is raised
CallGhostscript ==
  /\ pc = "process"
  /\ command_line_args' =
       CommandLineArgs(source, TempPath, password, first_page, last_page, os_name)
  /\ stdin' = Input(source)
  /\ runs' = runs + 1
  /\ temp_xml_file' = gs.written
  /\ status' = ValidateGsOutput(gs)
  /\ log' = Append(log, "__call_ghostscript")
  /\ pc' = "called"
  /\ UNCHANGED <<request, raw_xml, exc, reader, pages, calls>>

(***************************************************************************)
(* __handle_gs_result, lines 115-130                                       *)
(***************************************************************************)
Raise(type, msg) ==
  /\ exc' = [type |-> type, msg |-> msg]
  /\ pc' = "raised"

HandleLoaded ==
  /\ pc = "called" /\ status = "LOADED"
  /\ log' = Append(log, "__handle_gs_result")
  /\ pc' = "handled"
  /\ UNCHANGED <<request, command_line_args, stdin, runs, status, temp_xml_file,
                 raw_xml, exc, reader, pages, calls>>

HandleWrongPassword ==
  /\ pc = "called" /\ status = "WRONG_PASSWORD"
  /\ log' = Append(log, "__handle_gs_result")
  /\ Raise("PermissionError", "Wrong password")
  /\ UNCHANGED <<request, command_line_args, stdin, runs, status, temp_xml_file,
                 raw_xml, reader, pages, calls>>

HandleLocked ==
  /\ pc = "called" /\ status = "LOCKED"
  /\ log' = Append(log, "__handle_gs_result")
  /\ Raise("PermissionError", "File is encrypted. You need a password")
  /\ UNCHANGED <<request, command_line_args, stdin, runs, status, temp_xml_file,
                 raw_xml, reader, pages, calls>>

\* a variant that logs the unknown error and goes on
HandleUnknownError_Swallowed ==
  /\ pc = "called" /\ status = "UNKNOWN_ERROR"
  /\ log' = Append(log, "__handle_gs_result")
  /\ pc' = "handled"
  /\ UNCHANGED <<request, command_line_args, stdin, runs, status, temp_xml_file,
                 raw_xml, exc, reader, pages, calls>>

HandleUnknownError ==
  /\ pc = "called" /\ status = "UNKNOWN_ERROR"
  /\ log' = Append(log, "__handle_gs_result")
  /\ Raise("RuntimeError", "Unknown error in processing")
  /\ UNCHANGED <<request, command_line_args, stdin, runs, status, temp_xml_file,
                 raw_xml, reader, pages, calls>>

(***************************************************************************)
(* __clean_xml, lines 78-100                                               *)
(***************************************************************************)
\* the file is read, sanitized and written back in place
CleanXml ==
  /\ pc = "handled" /\ temp_xml_file.exists
  /\ raw_xml' = temp_xml_file.text
  /\ temp_xml_file' = FileOf(CleanText(temp_xml_file.text))
  /\ log' = Append(log, "__clean_xml")
  /\ pc' = "cleaned"
  /\ UNCHANGED <<request, command_line_args, stdin, runs, status, exc, reader,
                 pages, calls>>

\* open(temporary_xml_path, "r+") of a file Ghostscript did not write
CleanXmlNoFile ==
  /\ pc = "handled" /\ ~temp_xml_file.exists
  /\ log' = Append(log, "__clean_xml")
  /\ Raise("FileNotFoundError", "")
  /\ UNCHANGED <<request, command_line_args, stdin, runs, status, temp_xml_file,
                 raw_xml, reader, pages, calls>>

(***************************************************************************)
(* __parse_xml, lines 133-149                                              *)
(***************************************************************************)
\* line 135: the reader opens the file
IterParse ==
  /\ pc = "cleaned"
  /\ tokens' = Tokens(temp_xml_file.text)
  /\ fed' = 0 /\ builder' = NewBuilder /\ nodes' = <<>> /\ queue' = <<>>
  /\ log' = Append(log, "__parse_xml")
  /\ pc' = "first"
  /\ UNCHANGED <<request, command_line_args, stdin, runs, status, temp_xml_file,
                 raw_xml, exc, root, pages, calls>>

\* next(tree_iterator) with no event queued: the reader reads one more block
\* of the file, of whatever length, and parses it.  The blocks iterparse reads
\* hold 16 * 1024 characters: where they end does not depend on the elements.
ReadBlock ==
  /\ pc \in {"first", "loop"}
  /\ queue = <<>> /\ fed < Len(tokens)
  /\ \E to \in (fed + 1)..Len(tokens) :
       LET st == FeedTokens([b |-> builder, nodes |-> nodes, queue |-> queue],
                            tokens, fed + 1, to)
       IN  /\ builder' = st.b /\ nodes' = st.nodes /\ queue' = st.queue
           /\ fed' = to
  /\ UNCHANGED <<request, pc, command_line_args, stdin, runs, status,
                 temp_xml_file, raw_xml, exc, log, tokens, root, pages, calls>>

\* the next event is the parse error: next(tree_iterator) raises it
ParseError ==
  /\ pc \in {"first", "loop"}
  /\ queue # <<>> /\ Head(queue).ev = "error"
  /\ queue' = Tail(queue)
  /\ Raise("ParseError", "")
  /\ UNCHANGED <<request, command_line_args, stdin, runs, status, temp_xml_file,
                 raw_xml, log, tokens, fed, builder, nodes, root, pages, calls>>

\* line 138: event, root = next(tree_iterator)
FirstEvent ==
  /\ pc = "first"
  /\ queue # <<>> /\ Head(queue).ev # "error"
  /\ root' = Head(queue).el
  /\ queue' = Tail(queue)
  /\ pc' = "loop"
  /\ UNCHANGED <<request, command_line_args, stdin, runs, status, temp_xml_file,
                 raw_xml, exc, log, tokens, fed, builder, nodes, pages, calls>>

\* a variant that tests the tag alone
IsPageEnd_AnyEvent(e, heap) == heap[e.el].tag = <<"p","a","g","e">>

\* line 141: event == "end" and element.tag == "page"
IsPageEnd(e, heap) ==
  e.ev = "end" /\ heap[e.el].tag = <<"p","a","g","e">>

Items(kind, text) == [kind |-> kind, text |-> text]

\* what an element holds: its tags and character data, in document order
RECURSIVE Subtree(_, _)
RECURSIVE SubtreesOf(_, _)
Subtree(heap, el) ==
  <<Items("open", heap[el].tag)>>
    \o (IF heap[el].text = <<>> THEN <<>> ELSE <<Items("text", heap[el].text)>>)
    \o SubtreesOf(heap, heap[el].kids)
    \o <<Items("close", heap[el].tag)>>
SubtreesOf(heap, kids) ==
  IF kids = <<>> THEN <<>>
  ELSE Subtree(heap, Head(kids))
         \o (IF heap[Head(kids)].tail = <<>> THEN <<>>
             ELSE <<Items("text", heap[Head(kids)].tail)>>)
         \o SubtreesOf(heap, Tail(kids))

\* lines 142-144: a fresh MemoryMap, build_memory_map(), then
\* load_memory_map(page=element, drop_duplicate_spans=...)
\* a variant that clears the element before the consumer loads it
ConsumerCalls_Cleared(mm, e, heap, drop) ==
  << [op |-> "build_memory_map", mm |-> mm, el |-> 0, at |-> 0, page |-> <<>>,
      drop |-> FALSE],
     [op |-> "load_memory_map", mm |-> mm, el |-> e.el, at |-> e.at,
      page |-> Subtree([heap EXCEPT ![e.el] = Cleared(@)], e.el), drop |-> drop] >>

ConsumerCalls(mm, e, heap, drop) ==
  << [op |-> "build_memory_map", mm |-> mm, el |-> 0, at |-> 0, page |-> <<>>,
      drop |-> FALSE],
     [op |-> "load_memory_map", mm |-> mm, el |-> e.el, at |-> e.at,
      page |-> Subtree(heap, e.el), drop |-> drop] >>

\* lines 140-147 for the close of a page: the page is handed to the consumer
\* and appended, the element is cleared, and so is the root
LoadPage ==
  /\ pc = "loop"
  /\ queue # <<>> /\ Head(queue).ev # "error"
  /\ IsPageEnd(Head(queue), nodes)
  /\ LET el == Head(queue).el
         mm == Len(pages) + 1
     IN  /\ calls' = calls \o ConsumerCalls(mm, Head(queue), nodes,
                                            drop_duplicate_spans)
         /\ pages' = Append(pages, mm)
         /\ nodes' = [nodes EXCEPT ![el] = Cleared(nodes[el]),
                                   ![root] = Cleared(nodes[root])]
  /\ queue' = Tail(queue)
  /\ UNCHANGED <<request, pc, command_line_args, stdin, runs, status,
                 temp_xml_file, raw_xml, exc, log, tokens, fed, builder, root>>

\* lines 140-147 for any other event: only the root is cleared
SkipEvent ==
  /\ pc = "loop"
  /\ queue # <<>> /\ Head(queue).ev # "error"
  /\ ~IsPageEnd(Head(queue), nodes)
  /\ nodes' = [nodes EXCEPT ![root] = Cleared(nodes[root])]
  /\ queue' = Tail(queue)
  /\ UNCHANGED <<request, pc, command_line_args, stdin, runs, status,
                 temp_xml_file, raw_xml, exc, log, tokens, fed, builder, root,
                 pages, calls>>

\* lines 148-149: the events are exhausted; the file is removed and the
\* pages are returned
Return ==
  /\ pc = "loop"
  /\ queue = <<>> /\ fed = Len(tokens)
  /\ temp_xml_file' = NoFile
  /\ pc' = "returned"
  /\ UNCHANGED <<request, command_line_args, stdin, runs, status, raw_xml, exc,
                 log, reader, pages, calls>>

Next ==
  \/ CallGhostscript
  \/ HandleLoaded
  \/ HandleWrongPassword
  \/ HandleLocked
  \/ HandleUnknownError
  \/ CleanXml
  \/ CleanXmlNoFile
  \/ IterParse
  \/ ReadBlock
  \/ ParseError
  \/ FirstEvent
  \/ LoadPage
  \/ SkipEvent
  \/ Return

Spec == Init /\ [][Next]_vars

SpecPages == InitPages /\ [][Next]_vars

SpecRaw == InitRaw /\ [][Next]_vars
(***************************************************************************)
(* The claims.                                                             *)
(***************************************************************************)
Ended == pc \in {"returned", "raised"}

LoadCalls == SelectSeq(calls, LAMBDA c : c.op = "load_memory_map")

\* C1: on every exit path of process() (pages returned, PermissionError,
\* RuntimeError, an exception of the sanitizer, a parse error) the temporary
\* XML file does not exist once the call has returned or raised.
C1_TempFileGoneAfterCall == Ended => ~temp_xml_file.exists

\* C2: __validate_gs_output is a first-match classifier over stderr + stdout
\* and the exit code: the "requires a password" marker gives LOCKED whatever
\* else holds; else the "password did not work" marker gives WRONG_PASSWORD
\* even with the "unrecoverable error" marker or a non-zero exit code; else
\* that marker or a non-zero exit code gives UNKNOWN_ERROR; else LOADED.
\* LOADED is never the result of a non-zero exit code, and a password failure
\* is never UNKNOWN_ERROR.
C2_FirstMatchClassifier ==
  LET err == gs.stderr \o gs.stdout
      locked == \E k \in 1..Len(err) : err[k] = RequiresPassword
      wrong == \E k \in 1..Len(err) : err[k] = PasswordDidNotWork
      failed == (\E k \in 1..Len(err) : err[k] = UnrecoverableError)
                  \/ gs.returncode # 0
  IN  pc # "process" =>
        /\ locked => status = "LOCKED"
        /\ ~locked /\ wrong => status = "WRONG_PASSWORD"
        /\ ~locked /\ ~wrong /\ failed => status = "UNKNOWN_ERROR"
        /\ ~locked /\ ~wrong /\ ~failed => status = "LOADED"
        /\ status = "LOADED" => gs.returncode = 0
        /\ locked \/ wrong => status # "UNKNOWN_ERROR"

\* C2's case: a wrong password reported together with an unrecoverable error
\* and a non-zero exit code
C2_Witness ==
  /\ pc = "called" /\ status = "WRONG_PASSWORD"
  /\ gs.stderr = <<UnrecoverableError>> /\ gs.stdout = <<PasswordDidNotWork>>
  /\ gs.returncode # 0

\* C3: the status decides how the request ends.  LOADED lets the pipeline go
\* on to the sanitizer and the reader; WRONG_PASSWORD and LOCKED each end the
\* request with a PermissionError, with different messages; UNKNOWN_ERROR ends
\* it with a RuntimeError.  For a status other than LOADED the sanitizer and
\* the reader never run, the page consumer receives no call, and process()
\* returns no list of pages.
C3_StatusDecidesOutcome ==
  LET handled == pc \notin {"process", "called"}
  IN  /\ handled /\ status = "LOADED" =>
           /\ exc.type \notin {"PermissionError", "RuntimeError"}
           /\ pc = "raised" => Len(log) > 2
      /\ handled /\ status = "WRONG_PASSWORD" =>
           pc = "raised" /\ exc = [type |-> "PermissionError", msg |-> "Wrong password"]
      /\ handled /\ status = "LOCKED" =>
           /\ pc = "raised" /\ exc.type = "PermissionError"
           /\ exc.msg = "File is encrypted. You need a password"
           /\ exc.msg # "Wrong password"
      /\ handled /\ status = "UNKNOWN_ERROR" =>
           pc = "raised" /\ exc.type = "RuntimeError"
      /\ status \notin {"NONE", "LOADED"} =>
           /\ \A k \in 1..Len(log) : log[k] \notin {"__clean_xml", "__parse_xml"}
           /\ temp_xml_file = gs.written /\ tokens = <<>>
           /\ calls = <<>> /\ pages = <<>> /\ pc # "returned"

\* C3's case: an encrypted file ended the request while Ghostscript had
\* written a document
C3_Witness ==
  /\ pc = "raised" /\ status = "LOCKED" /\ gs.written.exists
  /\ gs.written.text # <<>>

\* C9, as amended: the command is, in this order, the binary name (by the
\* host OS alone), the five fixed flags, the password flag iff the password is
\* non-empty, the first-page flag iff first_page is given and non-zero, the
\* last-page flag iff last_page is given and non-zero, exactly one output-file
\* flag with the temporary path, and last the source path, or "-" for a byte
\* buffer; the input of the process is the byte buffer iff the source is one.
\* One process is run, and a non-zero exit code raises nothing.
C9_Built ==
  LET c == command_line_args
      n == Len(c)
      At(opt) == {k \in 1..n : c[k].opt = opt}
      Before(a, b) == \A i \in a, j \in b : i < j
      pw == At("-sPDFPassword=")
      fp == At("-dFirstPage=")
      lp == At("-dLastPage=")
      out == At("-sOutputFile=")
  IN  /\ c[1].opt = (IF os_name = "nt" THEN "gswin64c" ELSE "gs")
      /\ <<c[2].opt, c[3].opt, c[4].opt, c[5].opt, c[6].opt>> =
           <<"-dNOPAUSE", "-dBATCH", "-dSAFER", "-dTextFormat=1", "-sDEVICE=txtwrite">>
      /\ Cardinality(pw) = (IF password # "" THEN 1 ELSE 0)
      /\ \A k \in pw : c[k].str = password
      /\ Cardinality(fp) = (IF first_page.given /\ first_page.n # 0 THEN 1 ELSE 0)
      /\ \A k \in fp : c[k].num = first_page.n
      /\ Cardinality(lp) = (IF last_page.given /\ last_page.n # 0 THEN 1 ELSE 0)
      /\ \A k \in lp : c[k].num = last_page.n
      /\ out = {n - 1} /\ c[n - 1].str = TempPath
      /\ Before(1..6, pw \cup fp \cup lp) /\ Before(pw, fp \cup lp)
      /\ Before(fp, lp) /\ Before(pw \cup fp \cup lp, out)
      /\ n = 8 + Cardinality(pw) + Cardinality(fp) + Cardinality(lp)
      /\ c[n] = Arg("", IF source.kind = "bytes" THEN "-" ELSE source.val, 0)
      /\ stdin.given <=> source.kind = "bytes"
      /\ stdin.given => stdin.data = source.val /\ c[n].str = "-"

C9_CommandLine ==
  /\ pc # "process" => C9_Built /\ runs = 1
  /\ pc = "called" => exc = NoExc

\* C9's case: a byte buffer with a password, first page 0 and a last page,
\* on an exit code that is not zero
C9_Witness ==
  /\ pc = "called" /\ source.kind = "bytes" /\ password # ""
  /\ first_page = [given |-> TRUE, n |-> 0] /\ TruthyInt(last_page)
  /\ gs.returncode # 0

\* C9 as stated: the byte buffer is the input if and only if the last
\* argument is "-"
C9_Original ==
  pc # "process" =>
    /\ C9_Built /\ runs = 1
    /\ stdin.given <=> command_line_args[Len(command_line_args)].str = "-"
PageTag == <<"p","a","g","e">>

\* C4: for a document whose parse gives N close events of page elements, the
\* page consumer receives exactly N load_memory_map calls, each right after a
\* build_memory_map call on a fresh MemoryMap, in ascending document order,
\* and process() returns those N pages in that order; start events and the
\* events of other elements give no call.  (Before the end of the parse the
\* calls made are the first of these.)
C4_OneLoadPerPageClose ==
  LET all == ParseAll(tokens)
      ends == SelectSeq(all.queue,
                LAMBDA e : e.ev = "end" /\ all.nodes[e.el].tag = PageTag)
      n == Len(LoadCalls)
  IN  /\ Len(calls) = 2 * n /\ n <= Len(ends)
      /\ \A k \in 1..n :
           /\ calls[2 * k - 1].op = "build_memory_map" /\ calls[2 * k - 1].mm = k
           /\ calls[2 * k].op = "load_memory_map" /\ calls[2 * k].mm = k
           /\ calls[2 * k].el = ends[k].el /\ calls[2 * k].at = ends[k].at
           /\ calls[2 * k].drop = drop_duplicate_spans
      /\ \A k, l \in 1..n : k < l => LoadCalls[k].at < LoadCalls[l].at
      /\ pages = [k \in 1..n |-> k]
      /\ pc = "returned" => n = Len(ends)

\* C4's case: two pages returned from a document that also holds another
\* element
C4_Witness ==
  /\ pc = "returned" /\ Len(pages) = 2
  /\ \E k \in 1..Len(nodes) : nodes[k].tag \notin {PageTag, <<"p","a","g","e","s">>}

\* the elements inside an element
RECURSIVE Inside(_, _)
Inside(heap, el) ==
  UNION {{heap[el].kids[k]} \cup Inside(heap, heap[el].kids[k]) :
           k \in 1..Len(heap[el].kids)}

\* the page elements the reader still holds: those within the root, within
\* the elements it is building, and within the events it has not delivered
RetainedPages ==
  LET held == ({root} \cup {builder.stack[k] : k \in 1..Len(builder.stack)}
                \cup {queue[k].el : k \in 1..Len(queue)}) \ {0}
      reach == held \cup UNION {Inside(nodes, el) : el \in held}
  IN  {el \in reach : nodes[el].tag = PageTag}

Empty(n) == n.kids = <<>> /\ n.text = <<>>

\* what holds of the pages delivered, whatever the document
C10_Delivered ==
  /\ \A k \in 1..Len(LoadCalls) : Empty(nodes[LoadCalls[k].el])
  /\ pc = "loop" =>
       \A k \in 1..Len(nodes[root].kids) :
         \E j \in 1..Len(queue) :
           queue[j].ev = "start" /\ queue[j].el = nodes[root].kids[k]

\* C10, as amended: when load_memory_map is called for a page with no page
\* element nested in it, the element holds its complete subtree as it is in
\* the document; once a page-close event has been handled that page element
\* has no children and no text; and the root holds only elements whose start
\* event the reader has found and not yet delivered.
C10_ClearingKeepsUndelivered ==
  LET full == ParseAll(tokens).nodes
  IN  /\ \A k \in 1..Len(LoadCalls) :
           LET c == LoadCalls[k]
           IN  (\A el \in Inside(full, c.el) : full[el].tag # PageTag)
                  => c.page = Subtree(full, c.el)
      /\ C10_Delivered

\* C10's case: a page with content was delivered, then a second page
C10_Witness ==
  /\ pc = "returned" /\ Len(LoadCalls) = 2
  /\ Len(LoadCalls[1].page) > 2

\* C10 as stated: every page is loaded with its complete subtree, and at
\* every point of the parse at most one page's nodes are retained
C10_Original ==
  LET full == ParseAll(tokens).nodes
  IN  /\ \A k \in 1..Len(LoadCalls) :
           LoadCalls[k].page = Subtree(full, LoadCalls[k].el)
      /\ C10_Delivered
      /\ Cardinality(RetainedPages) <= 1

\* C5: the text __clean_xml writes is well-formed: the declaration, then one
\* <pages> root in which every tag is matched by a properly nested close and
\* no bare "&" or "<" remains; the reader parses it without an error.
C5_SanitizedIsWellFormed ==
  pc = "cleaned" => WellFormed(temp_xml_file.text)

\* what the reader makes of a text: whether it parses, and the tree
ParseResult(s) ==
  LET st == ParseAll(Tokens(s))
  IN  [ok |-> ~st.b.dead,
       tree |-> IF st.b.dead \/ st.nodes = <<>> THEN <<>> ELSE Subtree(st.nodes, 1)]

\* C6, as amended: lines 88-95 (all of the pipeline but the root and the
\* declaration of line 96) are idempotent: applied to the fragment they gave,
\* they give that fragment again.
C6_FragmentIdempotent ==
  pc = "cleaned" =>
    /\ temp_xml_file.text = Wrap(CleanFragment(raw_xml))
    /\ CleanFragment(CleanFragment(raw_xml)) = CleanFragment(raw_xml)

\* C6's case: a document with an escaped entity, which one pass decodes once
C6_Witness ==
  /\ pc = "cleaned"
  /\ raw_xml = <<"&","a","m","p",";","a","m","p",";","<">>

\* C6 as stated: sanitize(sanitize(x)) parses to the same elements and text
\* as sanitize(x)
C6_Original ==
  pc = "cleaned" =>
    ParseResult(CleanText(temp_xml_file.text)) = ParseResult(temp_xml_file.text)

\* the entity-decoded text of lines 88-93
Decoded(raw) == StripInvalid(Unescape(ReplaceQuot(StripHexRefs(raw))))

\* the text with "&" as &amp; and the "<" at the places `stray` as &lt;
Escaped(z, stray) ==
  Concat([k \in 1..Len(z) |->
            IF z[k] = "&" THEN <<"&","a","m","p",";">>
            ELSE IF z[k] = "<" /\ k \in stray THEN <<"&","l","t",";">>
            ELSE <<z[k]>>])

LetterAt(z, k) == k <= Len(z) /\ z[k] \in Letters

SlashAt(z, k) == k <= Len(z) /\ z[k] = "/"

\* C7, as amended: in the sanitized text every "&" of the decoded text is
\* &amp;, exactly the "<" that are followed neither by a letter nor by "/" and
\* a letter are &lt;, and every other "<" is left as a tag open; the &lt; are
\* not escaped again.
C7_EscapesStrayMarkup ==
  pc = "cleaned" =>
    temp_xml_file.text =
      XmlDecl \o PagesOpen
        \o (LET z == Decoded(raw_xml)
            IN  Escaped(z, {k \in 1..Len(z) :
                              ~(LetterAt(z, k + 1)
                                  \/ (SlashAt(z, k + 1) /\ LetterAt(z, k + 2)))}))
        \o PagesClose

\* C7's case: a literal "&", a tag, and a stray "<"
C7_Witness ==
  /\ pc = "cleaned"
  /\ raw_xml = <<"&", "<","p","a","g","e",">", "<">>

\* C7 as stated: exactly the "<" that are not followed by a letter or "/"
\* are &lt;
C7_Original ==
  pc = "cleaned" =>
    temp_xml_file.text =
      XmlDecl \o PagesOpen
        \o (LET z == Decoded(raw_xml)
            IN  Escaped(z, {k \in 1..Len(z) :
                              ~(LetterAt(z, k + 1) \/ SlashAt(z, k + 1))}))
        \o PagesClose

\* the text without the references &#x, one or more of 0-9 a-f A-F, ";"
RECURSIVE WithoutHexRefs(_, _)
WithoutHexRefs(s, i) ==
  IF i > Len(s) THEN <<>>
  ELSE LET d == IF StartsWith(s, i, <<"&", "#", "x">>)
                THEN RunLen(s, i + 3, HexDigits) ELSE 0
       IN  IF d >= 1 /\ i + 3 + d <= Len(s) /\ s[i + 3 + d] = ";"
           THEN WithoutHexRefs(s, i + d + 4)
           ELSE <<s[i]>> \o WithoutHexRefs(s, i + 1)

\* C8: step 1 removes every hexadecimal character reference before any
\* decoding, so that none of them gives a character of the sanitized text:
\* the text is the one the pipeline gives without them.
C8_HexReferencesRemoved ==
  pc = "cleaned" => temp_xml_file.text = CleanText(WithoutHexRefs(raw_xml, 1))
=============================================================================
